---- MODULE Spec2Model ----
(***************************************************************************)
(* A model of the HED MCP server's schema cache, definition assembly and   *)
(* tool handlers (VisLab/hed-mcp).                                         *)
(*                                                                         *)
(* JavaScript strings are sequences of one-character strings, so that      *)
(* split / trim / join are computed and not assumed.  A JavaScript value   *)
(* that may be a string, null or undefined is a record [t, s].             *)
(***************************************************************************)
EXTENDS Integers, Sequences, FiniteSets, TLC

VARIABLES
    cache,      \* SchemaCache.cache: the Map, as its entries in insertion order
    loadCount,  \* number of buildSchemasFromVersion invocations so far
    calls,      \* the getOrCreateSchema calls in flight or finished, per caller
    stored,     \* history: per key, the handle the latest resolved load of a direct call stored
    firstDone,  \* history: per key, the handle the earliest successful direct call returned
    lastOp,     \* the latest cache operation and what it returned
    loadedFor,  \* history: per loader invocation of a direct call, its argument
    defArgs,    \* the definitions argument createDefinitionManager is applied to
    defResult,  \* what createDefinitionManager returned for defArgs
    hcall,      \* the tool handler call in flight, or the last one finished
    aside,      \* a second handler call, suspended at an await or finished: <<call>>
    applied     \* the latest application of a pure utility: function, argument, result

vars == <<cache, loadCount, calls, stored, firstDone, lastOp, loadedFor, defArgs,
          defResult, hcall, aside, applied>>

directVars == <<calls, stored, firstDone, lastOp, loadedFor>>

defVars == <<defArgs, defResult, applied>>

(***************************************************************************)
(* Bounds.                                                                 *)
(***************************************************************************)
MaxLoads == 2

\* the longest definitions list passed to createDefinitionManager
MaxDefs == 3

\* the longest version string passed to normalizeVersion on its own
MaxStr == 3

\* the longest issue list passed to separateIssuesBySeverity on its own
MaxIssues == 3

\* the longest file path passed to a file reader
MaxPath == 3

CallIds == {"c1", "c2"}

(***************************************************************************)
(* JavaScript values.                                                      *)
(***************************************************************************)
Str(s) == [t |-> "str", s |-> s]

NullV == [t |-> "null", s |-> <<>>]

UndefinedV == [t |-> "undefined", s |-> <<>>]

\* !x for a value that is a string, null or undefined
Falsy(v) == v.t # "str" \/ v.s = <<>>

\* The version strings callers pass in this model.
VersionInputs ==
    { Str(<<"a">>), Str(<<" ", "a", ",">>),
      Str(<<"a", ",", "b">>), NullV }

(***************************************************************************)
(* String.prototype.trim / split / Array.prototype.join                    *)
(***************************************************************************)
\* the white space of this model: a space and a tab
IsSpace(c) == c \in {" ", "\t"}

RECURSIVE TrimStart(_)
TrimStart(s) ==
    IF s = <<>> THEN s
    ELSE IF IsSpace(Head(s)) THEN TrimStart(Tail(s)) ELSE s

RECURSIVE TrimEnd(_)
TrimEnd(s) ==
    IF s = <<>> THEN s
    ELSE IF IsSpace(s[Len(s)]) THEN TrimEnd(SubSeq(s, 1, Len(s) - 1)) ELSE s

\* a trim of the start only
Trim_StartOnly(s) == TrimStart(s)

Trim(s) == TrimEnd(TrimStart(s))

\* s.split(sep): always at least one part, "".split(",") is [""]
RECURSIVE Split(_, _)
Split(s, sep) ==
    IF s = <<>> THEN << <<>> >>
    ELSE LET rest == Split(Tail(s), sep)
         IN  IF Head(s) = sep
             THEN << <<>> >> \o rest
             ELSE << <<Head(s)>> \o Head(rest) >> \o Tail(rest)

RECURSIVE Join(_, _)
Join(parts, sep) ==
    IF parts = <<>> THEN <<>>
    ELSE IF Len(parts) = 1 THEN parts[1]
    ELSE parts[1] \o <<sep>> \o Join(Tail(parts), sep)

NonEmptyPart(p) == Len(p) > 0

\* empty parts dropped before the parts are trimmed
normalizeVersion_FilterFirst(hedVersion) ==
    IF Falsy(hedVersion) THEN hedVersion
    ELSE LET parts == SelectSeq(Split(hedVersion.s, ","), NonEmptyPart)
         IN  Str(Join([i \in 1..Len(parts) |-> Trim(parts[i])], ","))

normalizeVersion(hedVersion) ==
    IF Falsy(hedVersion) THEN hedVersion
    ELSE LET parts   == Split(hedVersion.s, ",")
             trimmed == [i \in 1..Len(parts) |-> Trim(parts[i])]
         IN  Str(Join(SelectSeq(trimmed, NonEmptyPart), ","))

(***************************************************************************)
(* Map: has / get / set / delete on the entries in insertion order.        *)
(***************************************************************************)
MapHas(m, k) == \E i \in 1..Len(m) : m[i].key = k

MapGet(m, k) == m[CHOOSE i \in 1..Len(m) : m[i].key = k].value

\* a set that always adds an entry
MapSet_Append(m, k, v) == Append(m, [key |-> k, value |-> v])

MapSet(m, k, v) ==
    IF MapHas(m, k)
    THEN [i \in 1..Len(m) |-> IF m[i].key = k THEN [key |-> k, value |-> v] ELSE m[i]]
    ELSE Append(m, [key |-> k, value |-> v])

MapDelete(m, k) == SelectSeq(m, LAMBDA e : e.key # k)

MapKeys(m) == {m[i].key : i \in 1..Len(m)}

(***************************************************************************)
(* JavaScript values inside issue objects: [t, v] with v the text String()  *)
(* gives, and the operators the formatter applies to them.                 *)
(***************************************************************************)
S(text) == [t |-> "str", v |-> text]

N(digits) == [t |-> "num", v |-> digits]

Undef == [t |-> "undef", v |-> "undefined"]

Truthy(x) ==
    \/ x.t = "str" /\ x.v # ""
    \/ x.t = "num" /\ x.v \notin {"0", "NaN"}
    \/ x.t = "obj"

\* a || b
Or(a, b) == IF Truthy(a) THEN a ELSE b

\* String(x)
ToStr(x) == x.v

\* x.toUpperCase(), on the strings this model uses; only a string has the method
ToUpperCase(text) ==
    CASE text = "warning" -> "WARNING"
      [] text = "sidecar_invalid" -> "SIDECAR_INVALID"
      [] text = "enoent" -> "ENOENT"
      [] OTHER -> text

(***************************************************************************)
(* Issue objects.  One record shape for all of them: shape tells which     *)
(* branch of formatIssue applies, a field the object lacks is Undef, and   *)
(* inner is the wrapped Issue (issue / hedIssue) as <<issue>>, or <<>>.    *)
(***************************************************************************)
BlankIssue ==
    [shape |-> "object", text |-> "", stringThrows |-> FALSE, hasParams |-> FALSE,
     inner |-> <<>>,
     hedCode |-> Undef, internalCode |-> Undef, level |-> Undef, message |-> Undef,
     msg |-> Undef, description |-> Undef, issueMessage |-> Undef,
     severity |-> Undef, type |-> Undef, code |-> Undef, subCode |-> Undef,
     line |-> Undef, tsvLine |-> Undef, lineNumber |-> Undef,
     column |-> Undef, columnNumber |-> Undef, sidecarKey |-> Undef,
     filePath |-> Undef]

FormattedIssue(code, detailedCode, severity, message, column, line, location) ==
    [code |-> code, detailedCode |-> detailedCode, severity |-> severity,
     message |-> message, column |-> column, line |-> line, location |-> location]

\* issueFormatter.ts lines 55-66
formatStringIssue(text) ==
    FormattedIssue("INTERNAL_ERROR", "INTERNAL_ERROR", "error", text, "", "", "")

\* issue.parameters?.name
Param(issue, value) == IF issue.hasParams THEN value ELSE Undef

\* issueFormatter.ts lines 97-113
formatHedIssue(issue) ==
    LET line == Or(Param(issue, issue.tsvLine), S(""))
        column == Or(Param(issue, issue.sidecarKey), S(""))
        location == Or(Param(issue, issue.filePath), S(""))
    IN  FormattedIssue(ToStr(issue.hedCode), ToStr(issue.internalCode),
                       ToStr(issue.level), ToStr(issue.message),
                       ToStr(column), ToStr(line), ToStr(location))

\* issueFormatter.ts lines 74-89
formatHedIssueError(issue) ==
    IF issue.inner # <<>> THEN formatHedIssue(issue.inner[1])
    ELSE FormattedIssue("INTERNAL_ERROR", "INTERNAL_ERROR", "error",
                        IF ToStr(issue.message) # "" THEN ToStr(issue.message)
                        ELSE "Unknown error",
                        "", "", "")

\* (issue.hedIssue && issue.hedIssue.field)
InnerField(issue, field) ==
    IF issue.inner = <<>> THEN Undef
    ELSE CASE field = "tsvLine" -> Param(issue.inner[1], issue.inner[1].tsvLine)
           [] field = "sidecarKey" -> Param(issue.inner[1], issue.inner[1].sidecarKey)
           [] field = "filePath" -> Param(issue.inner[1], issue.inner[1].filePath)
           [] field = "internalCode" -> issue.inner[1].internalCode
           [] field = "hedCode" -> issue.inner[1].hedCode

\* a wrapper whose severity and message fall back to the wrapped issue's
formatBidsHedIssue_InnerFallback(issue) ==
    LET line == Or(Or(issue.line, InnerField(issue, "tsvLine")), S(""))
        column == Or(InnerField(issue, "sidecarKey"), S(""))
        location == Or(InnerField(issue, "filePath"), S(""))
        detailedCode == Or(InnerField(issue, "internalCode"), S(""))
        code == Or(Or(InnerField(issue, "hedCode"), issue.code), S("BIDS_HED_CODE"))
        severity == IF issue.inner = <<>> THEN issue.severity
                    ELSE Or(issue.severity, issue.inner[1].level)
        message == IF issue.inner = <<>> THEN issue.issueMessage
                   ELSE Or(issue.issueMessage, issue.inner[1].message)
    IN  FormattedIssue(ToStr(code), ToStr(detailedCode), ToStr(severity),
                       ToStr(message), ToStr(column), ToStr(line),
                       ToStr(location))

\* issueFormatter.ts lines 121-140
formatBidsHedIssue(issue) ==
    LET line == Or(Or(issue.line, InnerField(issue, "tsvLine")), S(""))
        column == Or(InnerField(issue, "sidecarKey"), S(""))
        location == Or(InnerField(issue, "filePath"), S(""))
        detailedCode == Or(InnerField(issue, "internalCode"), S(""))
        code == Or(Or(InnerField(issue, "hedCode"), issue.code), S("BIDS_HED_CODE"))
    IN  FormattedIssue(ToStr(code), ToStr(detailedCode), ToStr(issue.severity),
                       ToStr(issue.issueMessage), ToStr(column), ToStr(line),
                       ToStr(location))

\* the value whose toUpperCase formatPlainObject calls (line 151)
PlainObjectType(issue) == Or(Or(issue.type, issue.code), S("INTERNAL_ERROR"))

\* issueFormatter.ts lines 148-169, when line 155 does not throw
formatPlainObject(issue) ==
    LET message == Or(Or(Or(Or(issue.message, issue.msg), issue.description),
                         issue.issueMessage), S("Unknown error"))
        severity == Or(Or(issue.level, issue.severity), S("error"))
        line == Or(Or(Or(issue.line, issue.tsvLine), issue.lineNumber), S(""))
        column == Or(Or(Or(issue.column, issue.columnNumber), issue.sidecarKey), S(""))
        location == Or(issue.filePath, S(""))
        code == ToUpperCase(PlainObjectType(issue).v)
        detailedCode == Or(Or(issue.subCode, issue.internalCode), S(""))
    IN  FormattedIssue(code, ToStr(detailedCode), ToStr(severity), ToStr(message),
                       ToStr(column), ToStr(line), ToStr(location))

\* issueFormatter.ts lines 177-185: text is String(issue), or the message of
\* what String(issue) threw
formatUnknownIssue(issue) ==
    IF issue.stringThrows THEN formatStringIssue("UNKNOWN: " \o issue.text)
    ELSE formatStringIssue(issue.text)

\* formatIssue throws: type.toUpperCase is not a function (line 155)
FormatThrows(issue) ==
    issue.shape = "object" /\ PlainObjectType(issue).t # "str"

\* issueFormatter.ts lines 28-47
formatIssue(issue) ==
    CASE issue.shape = "string" -> formatStringIssue(issue.text)
      [] issue.shape = "IssueError" -> formatHedIssueError(issue)
      [] issue.shape = "BidsHedIssue" -> formatBidsHedIssue(issue)
      [] issue.shape = "Issue" -> formatHedIssue(issue)
      [] issue.shape = "object" -> formatPlainObject(issue)
      [] OTHER -> formatUnknownIssue(issue)

\* formatIssues throws when formatting one of the issues does (lines 14-20)
FormatIssuesThrows(issues) == \E i \in 1..Len(issues) : FormatThrows(issues[i])

\* issueFormatter.ts lines 14-20
formatIssues(issues) == [i \in 1..Len(issues) |-> formatIssue(issues[i])]

(***************************************************************************)
(* The hed-validator library, as createDefinitionManager consumes it.      *)
(* Definition.createDefinition is a function of the definition string;     *)
(* these are the strings of this model and what each parses to.            *)
(***************************************************************************)
DefStrings == {"defX", "defX2", "defY", "defW", "bad"}

HedIssue(hedCode, internalCode, level, message) ==
    [BlankIssue EXCEPT !.shape = "Issue", !.hedCode = S(hedCode),
                       !.internalCode = S(internalCode), !.level = S(level),
                       !.message = S(message)]

NoDefinition == [name |-> "", body |-> ""]

\* Definition.createDefinition(defString, hedSchemas): [definition, errors, warnings]
createDefinition(defString) ==
    CASE defString = "defX" ->
            [definition |-> [name |-> "x", body |-> "Red"],
             errors |-> <<>>, warnings |-> <<>>]
      [] defString = "defX2" ->
            [definition |-> [name |-> "x", body |-> "Blue"],
             errors |-> <<>>, warnings |-> <<>>]
      [] defString = "defY" ->
            [definition |-> [name |-> "y", body |-> "Green"],
             errors |-> <<>>, warnings |-> <<>>]
      [] defString = "defW" ->
            [definition |-> [name |-> "w", body |-> "Train"],
             errors |-> <<>>,
             warnings |-> <<HedIssue("CHILD_REQUIRED", "childRequired", "warning", defString)>>]
      [] OTHER ->
            [definition |-> NoDefinition,
             errors |-> <<HedIssue("DEFINITION_INVALID", "invalidDefinition", "error", defString)>>,
             warnings |-> <<>>]

\* a registration that takes every definition and reports nothing
addDefinitions_All(held, definitions) ==
    [definitions |-> held \o definitions, issues |-> <<>>]

\* DefinitionManager.addDefinition: a different definition of a name already
\* held is refused with an issue; the one held stays
RECURSIVE addDefinitions(_, _)
addDefinitions(held, definitions) ==
    IF definitions = <<>> THEN [definitions |-> held, issues |-> <<>>]
    ELSE LET d == Head(definitions)
             same == {i \in 1..Len(held) : held[i].name = d.name}
             conflict == \E i \in same : held[i] # d
             rest == addDefinitions(IF same = {} THEN Append(held, d) ELSE held,
                                    Tail(definitions))
         IN  [definitions |-> rest.definitions,
              issues |-> (IF conflict
                          THEN <<HedIssue("DEFINITION_INVALID", "conflictingDefinitions",
                                          "error", d.name)>>
                          ELSE <<>>) \o rest.issues]

(***************************************************************************)
(* Definition assembler (utils/definitionProcessor.ts: convertDefinitions, *)
(* createDefinitionManager).  A definitions argument is [t, items]: an     *)
(* array, null or undefined.                                               *)
(***************************************************************************)
DefList(items) == [t |-> "array", items |-> items]

NullList == [t |-> "null", items |-> <<>>]

UndefinedList == [t |-> "undefined", items |-> <<>>]

NoManager == [present |-> FALSE, definitions |-> <<>>]

\* parseCalls counts the createDefinition invocations
NoDefResult == [called |-> FALSE, definitionManager |-> NoManager,
                errors |-> <<>>, warnings |-> <<>>, parseCalls |-> 0]

RECURSIVE convertDefinitions(_)
convertDefinitions(items) ==
    IF items = <<>> THEN [definitions |-> <<>>, errors |-> <<>>, warnings |-> <<>>]
    ELSE LET parsed == createDefinition(Head(items))
             rest == convertDefinitions(Tail(items))
         IN  [definitions |-> (IF parsed.definition = NoDefinition THEN <<>>
                               ELSE <<parsed.definition>>) \o rest.definitions,
              errors |-> parsed.errors \o rest.errors,
              warnings |-> parsed.warnings \o rest.warnings]

\* the guard on the batch registration
MayRegister(converted) ==
    Len(converted.definitions) > 0 /\ Len(converted.errors) = 0

\* an empty-input test that lets the empty list through
isEmptyInput_NullOnly(definitions) == definitions.t # "array"

\* the input is an empty list, null or undefined
isEmptyInput(definitions) ==
    definitions.t # "array" \/ Len(definitions.items) = 0

\* the definitions held by the manager of the other handler call
OtherDefinitions ==
    IF aside = <<>> THEN <<>>
    ELSE aside[1].definitionResult.definitionManager.definitions

\* one manager for all calls: it starts with what the latest one held
newDefinitionManager_Shared(held) == held

\* new DefinitionManager(): it holds nothing, whatever other managers hold
newDefinitionManager(held) == <<>>

createDefinitionManager(definitions) ==
    IF isEmptyInput(definitions)
    THEN [called |-> TRUE, definitionManager |-> NoManager,
          errors |-> <<>>, warnings |-> <<>>, parseCalls |-> 0]
    ELSE LET converted == convertDefinitions(definitions.items)
             manager == newDefinitionManager(OtherDefinitions)
             added == IF MayRegister(converted)
                      THEN addDefinitions(manager, converted.definitions)
                      ELSE [definitions |-> manager, issues |-> <<>>]
         IN  [called |-> TRUE,
              definitionManager |-> [present |-> TRUE, definitions |-> added.definitions],
              errors |-> formatIssues(converted.errors \o added.issues),
              warnings |-> formatIssues(converted.warnings),
              parseCalls |-> Len(definitions.items)]

(***************************************************************************)
(* SchemaCache (utils/schemaCache.ts)                                      *)
(***************************************************************************)
Keys == {normalizeVersion(v) : v \in VersionInputs}

NoResult == [kind |-> "none", id |-> 0]

\* the schema object the id-th loader invocation resolves to
Schema(id) == [kind |-> "schema", id |-> id]

\* the error the id-th loader invocation rejects with
LoadError(id) == [kind |-> "error", id |-> id]

\* loaderArg is what the call passed to buildSchemasFromVersion
IdleCall ==
    [pc |-> "idle", arg |-> NullV, load |-> 0, result |-> NoResult,
     seen |-> 0, done |-> 0, loaderArg |-> NullV]

Op(op, arg, ret) == [op |-> op, arg |-> arg, ret |-> ret]

\* a lookup by the caller's string instead of the normalized key
hasSchema_RawKey(m, hedVersion) == MapHas(m, hedVersion)

\* this.cache.has(normalizedVersion) (lines 290, 320)
hasSchema(m, hedVersion) == MapHas(m, normalizeVersion(hedVersion))

\* a hit that hands out the oldest entry whatever its key
cachedSchema_First(m, hedVersion) == m[1].value

\* this.cache.get(normalizedVersion) (line 292)
cachedSchema(m, hedVersion) == MapGet(m, normalizeVersion(hedVersion))

\* a loader that is handed the normalized key
LoaderArgument_Normalized(hedVersion) == normalizeVersion(hedVersion)

\* the argument of buildSchemasFromVersion (line 300)
LoaderArgument(hedVersion) == hedVersion

\* a load stored under the caller's string
CacheAfterLoad_RawKey(m, hedVersion, hedSchemas) == MapSet(m, hedVersion, hedSchemas)

\* a load that leaves an entry stored in the meantime as it is
CacheAfterLoad_KeepFirst(m, hedVersion, hedSchemas) ==
    IF MapHas(m, normalizeVersion(hedVersion)) THEN m
    ELSE MapSet(m, normalizeVersion(hedVersion), hedSchemas)

\* the cache after a load for hedVersion resolved to hedSchemas (line 303)
CacheAfterLoad(m, hedVersion, hedSchemas) ==
    MapSet(m, normalizeVersion(hedVersion), hedSchemas)

\* a failed load that leaves a placeholder entry behind
CacheAfterFailedLoad_Placeholder(m, hedVersion) ==
    MapSet(m, normalizeVersion(hedVersion), NoResult)

\* a failed load that drops the key's entry
CacheAfterFailedLoad_Evict(m, hedVersion) == MapDelete(m, normalizeVersion(hedVersion))

\* the cache after a load for hedVersion rejected (lines 307-310)
CacheAfterFailedLoad(m, hedVersion) == m

\* what the catch block throws on (line 309)
Rethrown(error) == error

\* a delete by the caller's string instead of the normalized key
CacheAfterRemove_RawKey(m, hedVersion) == MapDelete(m, hedVersion)

\* the cache after removeSchema(hedVersion) (line 349)
CacheAfterRemove(m, hedVersion) == MapDelete(m, normalizeVersion(hedVersion))

\* what removeSchema(hedVersion) returns: Map.delete's result
removeSchemaResult(m, hedVersion) == MapHas(m, normalizeVersion(hedVersion))

(***************************************************************************)
(* What the handlers' collaborators can do.                                *)
(***************************************************************************)
\* an Error object: a plain object for formatIssue, with a message only
ErrorObject(message) == [BlankIssue EXCEPT !.message = S(message)]

\* an IssueError that wraps the library's issue for a schema that cannot be loaded
SchemaLoadIssueError ==
    [BlankIssue EXCEPT !.shape = "IssueError", !.message = S("schema not found"),
       !.inner = <<HedIssue("SCHEMA_LOAD_FAILED", "remoteSchemaLoadFailed", "error",
                            "schema not found")>>]

\* an error object whose code is a number (an HTTP status, an errno)
NumericCodeError ==
    [BlankIssue EXCEPT !.message = S("request failed"), !.code = N("404")]

\* what buildSchemasFromVersion, the validator entry points and the
\* constructors of the library may throw or reject with
ThrownErrors == {ErrorObject("failed"), SchemaLoadIssueError, NumericCodeError}

\* what readFileFromPath rejects with (fileReader.ts)
ReadErrors ==
    {ErrorObject("File path must be absolute"), ErrorObject("File not found at path"),
     ErrorObject("Failed to read file at path")}

\* what JSON.parse throws
JsonSyntaxError == ErrorObject("Unexpected token")

\* what formatIssues inside the try block throws (issueFormatter.ts line 155)
NotAFunctionError == ErrorObject("type.toUpperCase is not a function")

TagError == HedIssue("TAG_INVALID", "invalidTag", "error", "invalid tag")

TagWarning == HedIssue("TAG_EXTENDED", "extension", "warning", "tag extension")

\* an issue object whose type is a number
NumericTypeIssue == [BlankIssue EXCEPT !.message = S("odd"), !.type = N("7")]

\* the issue lists a validator entry point returns in this model
IssueLists ==
    { <<>>, <<TagError>>, <<TagWarning>>, <<TagWarning, TagError>>, <<NumericTypeIssue>> }

\* one choice of what the collaborators do in a step of a handler:
\* thrown is <<error>> when the validator throws, issues what it returns,
\* hasHedData the TSV file object's flag, json whether the text read is JSON
Outcome(thrown, issues, hasHedData, json) ==
    [thrown |-> thrown, issues |-> issues, hasHedData |-> hasHedData, json |-> json]

Outcomes ==
    {Outcome(<<>>, l, hd, j) : l \in IssueLists, hd \in BOOLEAN, j \in {"valid", "invalid"}}
    \cup {Outcome(<<e>>, <<>>, TRUE, "valid") : e \in ThrownErrors}

IsError(formatted) == formatted.severity = "error"

\* an others list that takes the warnings only
IsOther_WarningOnly(formatted) == formatted.severity = "warning"

IsOther(formatted) == formatted.severity # "error"

\* separateIssuesBySeverity (utils/issueFormatter.ts)
separateIssuesBySeverity(issues) ==
    [errors |-> SelectSeq(issues, IsError), others |-> SelectSeq(issues, IsOther)]

IsErrorLevel(issue) == issue.level = S("error")

IsWarningLevel(issue) == issue.level # S("error")

\* parseStandaloneString returns its errors and warnings already separated
parseStandaloneString(issues) ==
    [errors |-> SelectSeq(issues, IsErrorLevel),
     warnings |-> SelectSeq(issues, IsWarningLevel)]

(***************************************************************************)
(* Tool handlers: handleValidateHedString, handleValidateHedTsv,           *)
(* handleParseHedSidecar.                                                  *)
(***************************************************************************)
Tools == {"string", "tsv", "sidecar", "validateSidecar"}

\* the args object.  checkForWarnings is "omitted", "true" or "false";
\* fileData is "omitted", "empty", or text that is "valid" or "invalid" JSON;
\* jsonData is "omitted", or text that is "valid" or "invalid" JSON
Args(hedVersion, checkForWarnings, definitions, fileData, jsonData) ==
    [present |-> TRUE, hedVersion |-> hedVersion, checkForWarnings |-> checkForWarnings,
     definitions |-> definitions, fileData |-> fileData, jsonData |-> jsonData]

\* a request without arguments: args is undefined (server.ts lines 68-72)
AbsentArgs ==
    [present |-> FALSE, hedVersion |-> UndefinedV, checkForWarnings |-> "omitted",
     definitions |-> UndefinedList, fileData |-> "omitted", jsonData |-> "omitted"]

HandlerVersions == {Str(<<"a">>), Str(<<" ", "a", ",">>)}

WarningFlags == {"omitted", "true", "false"}

HandlerDefinitions ==
    {UndefinedList, DefList(<<"defW">>), DefList(<<"defW", "bad">>),
     DefList(<<"defX", "defX2">>)}

ArgsOf(tool) ==
    {AbsentArgs} \cup
    CASE tool = "string" ->
            {Args(v, c, d, "omitted", "omitted") :
                v \in HandlerVersions, c \in WarningFlags, d \in HandlerDefinitions}
      [] tool = "tsv" ->
            {Args(v, c, d, f, j) :
                v \in HandlerVersions, c \in WarningFlags, d \in HandlerDefinitions,
                f \in {"omitted", "valid"}, j \in {"omitted", "valid", "invalid"}}
      [] OTHER ->
            {Args(v, c, UndefinedList, f, "omitted") :
                v \in HandlerVersions, c \in WarningFlags,
                f \in {"omitted", "empty", "valid", "invalid"}}

\* checkForWarnings = false in the destructuring, then used as a condition
checkForWarnings(args) == args.checkForWarnings = "true"

\* definitions = [] in the destructuring
definitionsOrDefault(args) ==
    IF args.definitions.t = "undefined" THEN DefList(<<>>) ELSE args.definitions

Result(errors, warnings, parsedHedSidecar) ==
    [errors |-> errors, warnings |-> warnings, parsedHedSidecar |-> parsedHedSidecar,
     isValid |-> "absent"]

\* the result of handleValidateHedSidecar, which has an isValid property
ValidityResult(isValid, errors, warnings) ==
    [Result(errors, warnings, "absent") EXCEPT
        !.isValid = IF isValid THEN "true" ELSE "false"]

\* a handler call: where it is, what it was given, which collaborators it has
\* invoked and how many times (loads, reads, validations), what the validator
\* found, by which path it returned and what
IdleHandler ==
    [pc |-> "idle", tool |-> "string", args |-> AbsentArgs, load |-> 0,
     hedSchemas |-> NoResult, definitionResult |-> NoDefResult,
     usedAssembler |-> FALSE, usedReader |-> FALSE, usedValidator |-> FALSE,
     loads |-> 0, reads |-> 0, validations |-> 0,
     schemaFailed |-> FALSE, hasHedData |-> "unset", readError |-> <<>>,
     found |-> <<>>,
     path |-> "none", result |-> Result(<<>>, <<>>, "absent")]

\* the handler's promise resolves with result
Returned(h, path, result) ==
    [h EXCEPT !.pc = "returned", !.path = path, !.result = result]

\* catch (error) { return { errors: [formatIssue(error)], warnings: [] } }
Caught(h, error) ==
    IF FormatThrows(error)
    THEN [h EXCEPT !.pc = "escaped", !.path = "caught"]
    ELSE Returned(h, "caught",
                  Result(<<formatIssue(error)>>, <<>>,
                         IF h.tool = "sidecar" THEN "" ELSE "absent"))

\* warnings of the content only
finalWarnings_ContentOnly(flag, definitionWarnings, warnings) ==
    IF flag THEN warnings ELSE <<>>

\* warnings handed out whatever the caller asked for
finalWarnings_Always(flag, definitionWarnings, warnings) ==
    definitionWarnings \o warnings

\* checkForWarnings ? [...definitionWarnings, ...warnings] : []
finalWarnings(flag, definitionWarnings, warnings) ==
    IF flag THEN definitionWarnings \o warnings ELSE <<>>

\* definition errors that do not stop the handler
hasDefinitionErrors_Never(definitionResult) == FALSE

\* definitionResult.errors.length > 0
hasDefinitionErrors(definitionResult) == Len(definitionResult.errors) > 0

\* the return inside that if
definitionErrorResult(flag, definitionResult) ==
    Result(definitionResult.errors,
           IF flag THEN definitionResult.warnings ELSE <<>>, "absent")

\* a handler that reads the file whatever it was given
needsRead_Always(args) == TRUE

\* data === undefined || data === null || data === '' (TSV), !data (sidecar)
needsRead(args) == args.fileData \in {"omitted", "empty"}

\* validate, formatIssues, separateIssuesBySeverity and the final result
Validated(h, o, definitionWarnings, parsedHedSidecar) ==
    LET hv == [h EXCEPT !.usedValidator = TRUE, !.validations = @ + 1,
                          !.found = o.issues]
    IN  IF o.thrown # <<>> THEN Caught(hv, o.thrown[1])
        ELSE IF FormatIssuesThrows(o.issues) THEN Caught(hv, NotAFunctionError)
        ELSE LET separated == separateIssuesBySeverity(formatIssues(o.issues))
             IN  Returned(hv, "success",
                          Result(separated.errors,
                                 finalWarnings(checkForWarnings(h.args),
                                               definitionWarnings, separated.others),
                                 parsedHedSidecar))

\* handleValidateHedString from parseStandaloneString on
StringValidated(h, o) ==
    LET hv == [h EXCEPT !.usedValidator = TRUE, !.validations = @ + 1,
                          !.found = o.issues]
        parsed == parseStandaloneString(o.issues)
    IN  IF o.thrown # <<>> THEN Caught(hv, o.thrown[1])
        ELSE IF FormatIssuesThrows(o.issues) THEN Caught(hv, NotAFunctionError)
        ELSE Returned(hv, "success",
                      Result(formatIssues(parsed.errors),
                             finalWarnings(checkForWarnings(h.args),
                                           h.definitionResult.warnings,
                                           formatIssues(parsed.warnings)),
                             "absent"))

\* a file object without HED data that is validated all the same
skipsValidation_Never(tsvFile) == FALSE

\* if (!tsvFile.hasHedData)
skipsValidation(tsvFile) == ~tsvFile.hasHedData

\* handleValidateHedTsv once it has the file's text; hasHedData records what
\* the BidsTsvFile it constructed reports
TsvContent(h, o) ==
    LET ht == [h EXCEPT !.hasHedData = IF o.hasHedData THEN "true" ELSE "false"]
    IN  IF h.args.jsonData = "invalid" THEN Caught(h, JsonSyntaxError)
        ELSE IF skipsValidation(o)
        THEN Returned(ht, "noHedData", Result(<<>>, <<>>, "absent"))
        ELSE Validated(ht, o, h.definitionResult.warnings, "absent")

\* handleParseHedSidecar once it has the sidecar's text, which is json
SidecarContent(h, json, o) ==
    IF json = "invalid" THEN Caught(h, JsonSyntaxError)
    ELSE Validated(h, o, <<>>, "json")

\* error.message, or the text the handler puts in its place
ErrorMessage(error, fallback) ==
    IF error.message.t = "str" THEN error.message.v ELSE fallback

\* the error objects handleValidateHedSidecar builds by hand
HandBuiltIssue(code, message, location) ==
    FormattedIssue(code, code, "error", message, "", "", location)

\* a failed read reported under the code of the outer catch
readFailure_AsValidationError(error) ==
    HandBuiltIssue("VALIDATION_ERROR",
                   "Validation failed: " \o ErrorMessage(error, "Unknown error"), "")

\* validateHedSidecar.ts lines 65-80: the catch around readFileFromPath
readFailure(error) ==
    HandBuiltIssue("FILE_READ_ERROR",
                   "Failed to read file: " \o ErrorMessage(error, "Unknown error"),
                   "filePath")

\* a malformed sidecar reported under the code of the outer catch
parseFailure_AsValidationError(error) ==
    HandBuiltIssue("VALIDATION_ERROR",
                   "Validation failed: " \o ErrorMessage(error, "Unknown error"), "")

\* validateHedSidecar.ts lines 86-101: the catch around JSON.parse
parseFailure(error) ==
    HandBuiltIssue("JSON_PARSE_ERROR",
                   "Failed to parse JSON: " \o ErrorMessage(error, "Invalid JSON format"),
                   "filePath")

\* validateHedSidecar.ts lines 125-139: the outer catch
validationFailure(error) ==
    HandBuiltIssue("VALIDATION_ERROR",
                   "Validation failed: " \o ErrorMessage(error, "Unknown error"), "")

\* a return of handleValidateHedSidecar from one of its catch blocks
Failed(h, issue) == Returned(h, "caught", ValidityResult(FALSE, <<issue>>, <<>>))

\* handleValidateHedSidecar once it has the sidecar's text, which is json
ValidateSidecarContent(h, json, o) ==
    LET hv == [h EXCEPT !.usedValidator = TRUE, !.validations = @ + 1,
                          !.found = o.issues]
    IN  IF json = "invalid" THEN Failed(h, parseFailure(JsonSyntaxError))
        ELSE IF o.thrown # <<>> THEN Failed(hv, validationFailure(o.thrown[1]))
        ELSE IF FormatIssuesThrows(o.issues)
        THEN Failed(hv, validationFailure(NotAFunctionError))
        ELSE Returned(hv, "success",
                      ValidityResult(formatIssues(o.issues) = <<>>,
                                     formatIssues(o.issues), <<>>))

\* handleValidateHedSidecar from the moment buildSchemasFromVersion gave it
\* hedSchemas, up to its return or to the await of readFileFromPath
ValidateSidecarWithSchema(h, hedSchemas, o) ==
    LET hs == [h EXCEPT !.hedSchemas = hedSchemas]
    IN  IF needsRead(h.args)
        THEN [hs EXCEPT !.pc = "awaitRead", !.usedReader = TRUE, !.reads = @ + 1]
        ELSE ValidateSidecarContent(hs, h.args.fileData, o)

\* a handler whose await of readFileFromPath rejected with error: the catch
\* around the read in handleValidateHedSidecar, the outer catch in the others
ReadRejected(h, error) ==
    LET hr == [h EXCEPT !.readError = <<error>>]
    IN  IF h.tool = "validateSidecar" THEN Failed(hr, readFailure(error))
        ELSE Caught(hr, error)

\* a handler from the moment getOrCreateSchema gave it hedSchemas, up to its
\* return or to the await of readFileFromPath
WithSchema(h, hedSchemas, o) ==
    LET hs == [h EXCEPT !.hedSchemas = hedSchemas]
        definitionResult == createDefinitionManager(definitionsOrDefault(h.args))
        hd == [hs EXCEPT !.usedAssembler = TRUE, !.definitionResult = definitionResult]
    IN  IF h.tool = "sidecar"
        THEN IF needsRead(h.args)
             THEN [hs EXCEPT !.pc = "awaitRead", !.usedReader = TRUE, !.reads = @ + 1]
             ELSE SidecarContent(hs, h.args.fileData, o)
        ELSE IF hasDefinitionErrors(definitionResult)
        THEN Returned(hd, "definitionErrors",
                      definitionErrorResult(checkForWarnings(h.args), definitionResult))
        ELSE IF h.tool = "string" THEN StringValidated(hd, o)
        ELSE IF needsRead(h.args)
        THEN [hd EXCEPT !.pc = "awaitRead", !.usedReader = TRUE, !.reads = @ + 1]
        ELSE TsvContent(hd, o)

\* getCacheStats() (lines 327-332)
getCacheStats(m) ==
    [cachedVersions |-> [i \in 1..Len(m) |-> m[i].key], cacheSize |-> Len(m)]

TypeOK ==
    /\ loadCount \in 0..MaxLoads
    /\ \A i \in 1..Len(cache) : cache[i].key \in Keys
    /\ DOMAIN calls = CallIds
    /\ DOMAIN stored = Keys
    /\ defArgs.t \in {"array", "null", "undefined"}
    /\ defResult.parseCalls \in 0..MaxDefs
    /\ hcall.pc \in {"idle", "awaitSchema", "awaitRead", "returned", "escaped"}
    /\ hcall.tool \in Tools
    /\ hcall.load \in 0..MaxLoads

\* new SchemaCache(), and no caller yet
CacheInit ==
    /\ cache = <<>>
    /\ loadCount = 0
    /\ calls = [c \in CallIds |-> IdleCall]
    /\ stored = [k \in Keys |-> 0]
    /\ firstDone = [k \in Keys |-> 0]
    /\ lastOp = Op("none", NullV, FALSE)
    /\ loadedFor = [id \in 1..MaxLoads |-> NullV]

\* no utility applied yet
NotApplied == [fn |-> "none", arg |-> <<>>, result |-> <<>>]

Init ==
    /\ CacheInit
    /\ defArgs = UndefinedList
    /\ defResult = NoDefResult
    /\ hcall = IdleHandler
    /\ aside = <<>>
    /\ applied = NotApplied

\* getOrCreateSchema up to its first suspension: a hit returns at once, a miss
\* invokes the loader with the caller's string and awaits it (lines 285-300)
GetOrCreateSchema(c, hedVersion) ==
    LET k == normalizeVersion(hedVersion)
        start == [IdleCall EXCEPT !.arg = hedVersion, !.seen = stored[k],
                                  !.done = firstDone[k]]
    IN  /\ calls[c].pc # "awaitLoad"
        /\ IF hasSchema(cache, hedVersion)
           THEN /\ calls' = [calls EXCEPT ![c] =
                       [start EXCEPT !.pc = "returned",
                                     !.result = cachedSchema(cache, hedVersion)]]
                /\ firstDone' = [firstDone EXCEPT ![k] =
                       IF @ = 0 THEN cachedSchema(cache, hedVersion).id ELSE @]
                /\ UNCHANGED <<loadCount, loadedFor>>
           ELSE /\ loadCount < MaxLoads
                /\ loadCount' = loadCount + 1
                /\ calls' = [calls EXCEPT ![c] =
                       [start EXCEPT !.pc = "awaitLoad", !.load = loadCount + 1,
                                     !.loaderArg = LoaderArgument(hedVersion)]]
                /\ loadedFor' = [loadedFor EXCEPT ![loadCount + 1] =
                                     LoaderArgument(hedVersion)]
                /\ UNCHANGED firstDone
        /\ lastOp' = Op("getOrCreate", NullV, FALSE)
        /\ UNCHANGED <<cache, stored, defVars, hcall, aside>>

\* buildSchemasFromVersion resolved: store under the normalized key, return it
\* (lines 300-306)
LoadResolve(c) ==
    LET call == calls[c]
        k == normalizeVersion(call.arg)
        hedSchemas == Schema(call.load)
    IN  /\ call.pc = "awaitLoad"
        /\ cache' = CacheAfterLoad(cache, call.arg, hedSchemas)
        /\ calls' = [calls EXCEPT ![c].pc = "returned", ![c].result = hedSchemas]
        /\ stored' = [stored EXCEPT ![k] = call.load]
        /\ firstDone' = [firstDone EXCEPT ![k] = IF @ = 0 THEN call.load ELSE @]
        /\ lastOp' = Op("loaded", NullV, TRUE)
        /\ UNCHANGED <<loadCount, loadedFor, defVars, hcall, aside>>

\* buildSchemasFromVersion rejected or threw: log and rethrow (lines 307-310)
LoadReject(c) ==
    LET call == calls[c]
    IN  /\ call.pc = "awaitLoad"
        /\ cache' = CacheAfterFailedLoad(cache, call.arg)
        /\ calls' = [calls EXCEPT ![c].pc = "threw",
                                  ![c].result = Rethrown(LoadError(call.load))]
        /\ lastOp' = Op("loaded", NullV, FALSE)
        /\ UNCHANGED <<loadCount, stored, firstDone, loadedFor, defVars, hcall, aside>>

\* removeSchema(hedVersion) (lines 347-350)
RemoveSchema(hedVersion) ==
    LET k == normalizeVersion(hedVersion)
    IN  /\ cache' = CacheAfterRemove(cache, hedVersion)
        /\ lastOp' = Op("remove", hedVersion, removeSchemaResult(cache, hedVersion))
        /\ stored' = [stored EXCEPT ![k] = 0]
        /\ firstDone' = [firstDone EXCEPT ![k] = 0]
        /\ UNCHANGED <<loadCount, calls, loadedFor, defVars, hcall, aside>>

\* clearCache() (lines 337-340)
ClearCache ==
    /\ cache' = <<>>
    /\ lastOp' = Op("clear", NullV, FALSE)
    /\ stored' = [k \in Keys |-> 0]
    /\ firstDone' = [k \in Keys |-> 0]
    /\ UNCHANGED <<loadCount, calls, loadedFor, defVars, hcall, aside>>

Next ==
    \/ \E c \in CallIds, v \in VersionInputs : GetOrCreateSchema(c, v)
    \/ \E c \in CallIds : LoadResolve(c)
    \/ \E c \in CallIds : LoadReject(c)
    \/ \E v \in VersionInputs : RemoveSchema(v)
    \/ ClearCache

Spec == Init /\ [][Next]_vars

(***************************************************************************)
(* createDefinitionManager applied to a definitions argument.              *)
(***************************************************************************)
DefinitionLists ==
    UNION {[1..n -> DefStrings] : n \in 0..MaxDefs}

DefinitionInputs == {NullList, UndefinedList} \cup {DefList(l) : l \in DefinitionLists}

CreateDefinitionManager(definitions) ==
    /\ defArgs' = definitions
    /\ defResult' = createDefinitionManager(definitions)
    /\ UNCHANGED <<cache, loadCount, directVars, hcall, aside, applied>>

NextDef == \E definitions \in DefinitionInputs : CreateDefinitionManager(definitions)

SpecDef == Init /\ [][NextDef]_vars

(***************************************************************************)
(* The pure utilities applied on their own: normalizeVersion and           *)
(* separateIssuesBySeverity.                                               *)
(***************************************************************************)
\* a value that is neither a string, null nor undefined
NumberV == [t |-> "num", s |-> <<"5">>]

VersionChars == {"a", "b", " ", "\t", ","}

VersionStrings == UNION {[1..n -> VersionChars] : n \in 0..MaxStr}

NormalizeInputs == {Str(s) : s \in VersionStrings} \cup {NullV, UndefinedV, NumberV}

Severities == {"error", "warning", "info", "Error"}

\* formatted issues told apart by their message
IssueItems ==
    {FormattedIssue("CODE", "code", sev, m, "", "", "") :
        sev \in Severities, m \in {"m1", "m2"}}

IssueItemLists == UNION {[1..n -> IssueItems] : n \in 0..MaxIssues}

ApplyNormalizeVersion(hedVersion) ==
    /\ applied.fn = "none"
    /\ applied' = [fn |-> "normalizeVersion", arg |-> hedVersion,
                   result |-> normalizeVersion(hedVersion)]
    /\ UNCHANGED <<cache, loadCount, directVars, defArgs, defResult, hcall, aside>>

ApplySeparateIssuesBySeverity(issues) ==
    /\ applied.fn = "none"
    /\ applied' = [fn |-> "separateIssuesBySeverity", arg |-> issues,
                   result |-> separateIssuesBySeverity(issues)]
    /\ UNCHANGED <<cache, loadCount, directVars, defArgs, defResult, hcall, aside>>

\* the values a field of an issue object may hold: absent, texts, a number
FieldValues == {Undef, S(""), S("warning"), N("7")}

\* plain text issues
StringIssues ==
    {[BlankIssue EXCEPT !.shape = "string", !.text = t] : t \in {"", "bad tag"}}

\* Issue objects of the library, with and without a parameters bag
StructuredIssues ==
    {[HedIssue("TAG_INVALID", "invalidTag", level, "invalid tag") EXCEPT
         !.hasParams = hp, !.tsvLine = tl, !.sidecarKey = sk, !.filePath = fp] :
        level \in {"error", "warning"}, hp \in BOOLEAN, tl \in {Undef, S("5")},
        sk \in {Undef, S("key")}, fp \in {Undef, S("/f")}}

\* the Issue objects a wrapper wraps in this model
InnerIssues ==
    {[HedIssue("TAG_INVALID", "invalidTag", "error", "invalid tag") EXCEPT
         !.hasParams = TRUE, !.tsvLine = S("5"), !.sidecarKey = S("key"),
         !.filePath = S("/f")],
     HedIssue("TAG_EXTENDED", "extension", "warning", "tag extension"),
     [HedIssue("", "", "warning", "no code") EXCEPT
         !.hedCode = Undef, !.internalCode = Undef, !.hasParams = TRUE,
         !.tsvLine = S("5")]}

\* IssueError objects, with and without the issue they wrap
WrappedExceptions ==
    {[BlankIssue EXCEPT !.shape = "IssueError", !.message = m, !.inner = inner] :
        m \in {S("boom"), S("")}, inner \in {<<>>} \cup {<<i>> : i \in InnerIssues}}

\* BidsHedIssue objects: the wrapper's own fields and the issue it wraps
FileScopedIssues ==
    {[BlankIssue EXCEPT !.shape = "BidsHedIssue", !.line = line, !.severity = severity,
                        !.issueMessage = issueMessage, !.code = code, !.inner = inner] :
        line \in {Undef, N("7")}, severity \in {Undef, S("error")},
        issueMessage \in {Undef, S("in file")}, code \in {Undef, S("HED_ERROR")},
        inner \in {<<>>} \cup {<<i>> : i \in InnerIssues}}

\* other objects
PlainObjects ==
    {[BlankIssue EXCEPT !.message = message, !.level = level, !.type = type,
                        !.code = code, !.lineNumber = lineNumber, !.subCode = subCode] :
        message \in {Undef, S("text")}, level \in {Undef, S("warning")},
        type \in FieldValues, code \in FieldValues,
        lineNumber \in {Undef, N("7")}, subCode \in {Undef, S("sub")}}

\* values that are neither strings nor objects (a number, null, undefined),
\* arrays, and a value whose conversion to a string throws
OtherValues ==
    {[BlankIssue EXCEPT !.shape = "other", !.text = t] :
        t \in {"12345", "null", "undefined", ""}}
    \cup {[BlankIssue EXCEPT !.shape = "other", !.stringThrows = TRUE,
                             !.text = "Cannot convert object to primitive value"]}

FormatInputs ==
    StringIssues \cup StructuredIssues \cup WrappedExceptions \cup FileScopedIssues
        \cup PlainObjects \cup OtherValues

\* what a call gave: the value it returned, or that it threw
Gave(threw, value) == [threw |-> threw, value |-> value]

ApplyFormatIssue(issue) ==
    /\ applied.fn = "none"
    /\ applied' = [fn |-> "formatIssue", arg |-> issue,
                   result |-> IF FormatThrows(issue) THEN Gave(TRUE, <<>>)
                              ELSE Gave(FALSE, formatIssue(issue))]
    /\ UNCHANGED <<cache, loadCount, directVars, defArgs, defResult, hcall, aside>>

\* the issues of the lists formatIssues is applied to: a text, an Issue, two
\* plain objects (one with a number as its type) and null
FormatListItems ==
    {[BlankIssue EXCEPT !.shape = "string", !.text = "A string error"],
     TagWarning,
     [BlankIssue EXCEPT !.message = S("A plain object error"), !.code = S("enoent")],
     NumericTypeIssue,
     [BlankIssue EXCEPT !.shape = "other", !.text = "null"]}

FormatLists == UNION {[1..n -> FormatListItems] : n \in 0..MaxIssues}

ApplyFormatIssues(issues) ==
    /\ applied.fn = "none"
    /\ applied' = [fn |-> "formatIssues", arg |-> issues,
                   result |-> IF FormatIssuesThrows(issues) THEN Gave(TRUE, <<>>)
                              ELSE Gave(FALSE, formatIssues(issues))]
    /\ UNCHANGED <<cache, loadCount, directVars, defArgs, defResult, hcall, aside>>

NextPure ==
    \/ \E issues \in FormatLists : ApplyFormatIssues(issues)
    \/ \E hedVersion \in NormalizeInputs : ApplyNormalizeVersion(hedVersion)
    \/ \E issues \in IssueItemLists : ApplySeparateIssuesBySeverity(issues)
    \/ \E issue \in FormatInputs : ApplyFormatIssue(issue)

SpecPure == Init /\ [][NextPure]_vars

(***************************************************************************)
(* The file readers: readFileFromPath (utils/fileReader.ts) and            *)
(* handleGetFileFromPath (tools/getFileFromPath.ts), one call, in steps    *)
(* around its await of fs.readFile.                                        *)
(***************************************************************************)
PathChars == {"/", "a", "."}

\* file paths as sequences of characters
FilePaths == UNION {[1..n -> PathChars] : n \in 0..MaxPath}

\* the text of a sequence of characters
RECURSIVE Text(_)
Text(chars) == IF chars = <<>> THEN "" ELSE chars[1] \o Text(Tail(chars))

\* path.isAbsolute(filePath), POSIX
isAbsolute(filePath) == filePath # <<>> /\ filePath[1] = "/"

Readers == {"readFileFromPath", "handleGetFileFromPath"}

\* what fs.readFile rejects with: an Error with a code
FsError(isError, code, message) ==
    [isError |-> isError, code |-> code, message |-> message]

FsErrors ==
    {FsError(TRUE, "ENOENT", "no such file or directory"),
     FsError(TRUE, "EISDIR", "illegal operation on a directory"),
     FsError(TRUE, "EACCES", "permission denied")}

\* the message of the Error thrown for a path that is not absolute:
\* a template literal in readFileFromPath (line 238), a plain string literal
\* in handleGetFileFromPath (line 27)
notAbsoluteMessage(reader, filePath) ==
    IF reader = "readFileFromPath"
    THEN "File path must be absolute: " \o Text(filePath) \o "."
    ELSE "File path must be absolute: ${filePath}."

\* the test for a missing file in the catch block
isNotFound(reader, error) ==
    IF reader = "readFileFromPath" THEN error.code = "ENOENT"
    ELSE error.isError /\ error.code = "ENOENT"

\* the message of the Error the catch block throws
readErrorMessage(reader, filePath, error) ==
    IF isNotFound(reader, error) THEN "File not found at path: " \o Text(filePath)
    ELSE "Failed to read file at path " \o Text(filePath) \o ": " \o
             (IF error.isError THEN error.message ELSE "Unknown error")

\* the state of a reader call: status, whether fs.readFile was invoked, what
\* it rejected with, and the message of the Error the reader rejected with
ReadState(status, fsAccessed, cause, message) ==
    [status |-> status, fsAccessed |-> fsAccessed, cause |-> cause, message |-> message]

\* the call, up to the throw for a path that is not absolute or to the await
ReadFile(reader, filePath) ==
    /\ applied.fn = "none"
    /\ applied' = [fn |-> reader, arg |-> filePath,
                   result |-> IF ~isAbsolute(filePath)
                              THEN ReadState("rejected", FALSE, <<>>,
                                             notAbsoluteMessage(reader, filePath))
                              ELSE ReadState("pending", TRUE, <<>>, "")]
    /\ UNCHANGED <<cache, loadCount, directVars, defArgs, defResult, hcall, aside>>

\* fs.readFile resolved with the file's text
FsResolved ==
    /\ applied.fn \in Readers /\ applied.result.status = "pending"
    /\ applied' = [applied EXCEPT !.result.status = "resolved"]
    /\ UNCHANGED <<cache, loadCount, directVars, defArgs, defResult, hcall, aside>>

\* fs.readFile rejected with error
FsRejected(error) ==
    /\ applied.fn \in Readers /\ applied.result.status = "pending"
    /\ applied' = [applied EXCEPT
                      !.result = ReadState("rejected", TRUE, <<error>>,
                                           readErrorMessage(applied.fn, applied.arg, error))]
    /\ UNCHANGED <<cache, loadCount, directVars, defArgs, defResult, hcall, aside>>

NextRead ==
    \/ \E reader \in Readers : \E filePath \in FilePaths : ReadFile(reader, filePath)
    \/ FsResolved
    \/ \E error \in FsErrors : FsRejected(error)

SpecRead == Init /\ [][NextRead]_vars

(***************************************************************************)
(* The handlers as steps between their awaits.  One call at a time; the    *)
(* cache lives on from call to call.                                       *)
(***************************************************************************)
\* the call: the destructuring of args, then getOrCreateSchema up to its await
HandlerCall(tool, args) ==
    LET h == [IdleHandler EXCEPT !.tool = tool, !.args = args]
    IN  /\ hcall.pc \notin {"awaitSchema", "awaitRead"}
        /\ IF ~args.present
           THEN /\ hcall' = [h EXCEPT !.pc = "escaped"]
                /\ UNCHANGED loadCount
           ELSE IF tool # "validateSidecar" /\ hasSchema(cache, args.hedVersion)
           THEN /\ hcall' = [h EXCEPT !.pc = "awaitSchema",
                                      !.hedSchemas = cachedSchema(cache, args.hedVersion)]
                /\ UNCHANGED loadCount
           ELSE /\ loadCount < MaxLoads
                /\ loadCount' = loadCount + 1
                /\ hcall' = [h EXCEPT !.pc = "awaitSchema", !.load = loadCount + 1,
                                      !.loads = @ + 1]
        /\ UNCHANGED <<cache, directVars, defVars, aside>>

\* getOrCreateSchema resolved, from the cache or by the loader
HandlerSchemaResolved(o) ==
    /\ hcall.pc = "awaitSchema"
    /\ IF hcall.tool = "validateSidecar"
       THEN /\ hcall' = ValidateSidecarWithSchema(hcall, Schema(hcall.load), o)
            /\ UNCHANGED cache
       ELSE IF hcall.load = 0
       THEN /\ hcall' = WithSchema(hcall, hcall.hedSchemas, o)
            /\ UNCHANGED cache
       ELSE /\ hcall' = WithSchema(hcall, Schema(hcall.load), o)
            /\ cache' = CacheAfterLoad(cache, hcall.args.hedVersion, Schema(hcall.load))
    /\ UNCHANGED <<loadCount, directVars, defVars, aside>>

\* the loader rejected with error, getOrCreateSchema rethrew it
HandlerSchemaRejected(error) ==
    /\ hcall.pc = "awaitSchema"
    /\ hcall.load # 0
    /\ IF hcall.tool = "validateSidecar"
       THEN /\ UNCHANGED cache
            /\ hcall' = Failed([hcall EXCEPT !.schemaFailed = TRUE],
                               validationFailure(error))
       ELSE /\ cache' = CacheAfterFailedLoad(cache, hcall.args.hedVersion)
            /\ hcall' = Caught([hcall EXCEPT !.schemaFailed = TRUE], Rethrown(error))
    /\ UNCHANGED <<loadCount, directVars, defVars, aside>>

\* readFileFromPath resolved
HandlerReadResolved(o) ==
    /\ hcall.pc = "awaitRead"
    /\ hcall' = CASE hcall.tool = "tsv" -> TsvContent(hcall, o)
                  [] hcall.tool = "validateSidecar" ->
                        ValidateSidecarContent(hcall, o.json, o)
                  [] OTHER -> SidecarContent(hcall, o.json, o)
    /\ UNCHANGED <<cache, loadCount, directVars, defVars, aside>>

\* readFileFromPath rejected
HandlerReadRejected(error) ==
    /\ hcall.pc = "awaitRead"
    /\ hcall' = ReadRejected(hcall, error)
    /\ UNCHANGED <<cache, loadCount, directVars, defVars, aside>>

NextHandler ==
    \/ \E tool \in Tools : \E args \in ArgsOf(tool) : HandlerCall(tool, args)
    \/ \E o \in Outcomes : HandlerSchemaResolved(o)
    \/ \E error \in ThrownErrors : HandlerSchemaRejected(error)
    \/ \E o \in Outcomes : HandlerReadResolved(o)
    \/ \E error \in ReadErrors : HandlerReadRejected(error)

SpecHandler == Init /\ [][NextHandler]_vars

(***************************************************************************)
(* The handlers when every awaited collaborator call is settled in the     *)
(* end: one call at a time, of any tool, with one version and warnings     *)
(* asked for.                                                              *)
(***************************************************************************)
FairArgs(tool) ==
    {AbsentArgs} \cup
    {args \in ArgsOf(tool) :
        args.hedVersion = Str(<<"a">>) /\ args.checkForWarnings = "true"}

\* what the collaborators do then: issues found, no HED data in a file whose
\* text is not JSON, and a validator that throws
FairOutcomes ==
    {Outcome(<<>>, <<TagWarning, TagError>>, TRUE, "valid"),
     Outcome(<<>>, <<>>, FALSE, "invalid"),
     Outcome(<<NumericCodeError>>, <<>>, TRUE, "valid")}

\* an awaited collaborator call resolves or rejects
Settled ==
    \/ \E o \in FairOutcomes : HandlerSchemaResolved(o)
    \/ \E error \in ThrownErrors : HandlerSchemaRejected(error)
    \/ \E o \in FairOutcomes : HandlerReadResolved(o)
    \/ \E error \in ReadErrors : HandlerReadRejected(error)

NextFair ==
    \/ \E tool \in Tools : \E args \in FairArgs(tool) : HandlerCall(tool, args)
    \/ Settled

SpecHandlerFair == Init /\ [][NextFair]_vars /\ WF_vars(Settled)

(***************************************************************************)
(* Two handler calls at a time.  Between two steps of a call, which are    *)
(* its awaits, the event loop may take up the other call: hcall is the     *)
(* call it is running, aside the one set aside.                            *)
(***************************************************************************)
\* the calls made when two run at a time
ConcurrentArgs(tool) ==
    {Args(Str(<<"a">>), "true", d, "omitted", "omitted") : d \in HandlerDefinitions}

\* what the collaborators do then
ConcurrentOutcomes ==
    {Outcome(<<>>, <<TagWarning>>, TRUE, "valid"), Outcome(<<>>, <<>>, FALSE, "valid")}

\* the event loop sets the call it was running aside and takes up the other
HandlerTurn ==
    /\ hcall.pc # "idle"
    /\ aside' = <<hcall>>
    /\ hcall' = IF aside = <<>> THEN IdleHandler ELSE aside[1]
    /\ UNCHANGED <<cache, loadCount, directVars, defVars>>

NextConcurrent ==
    \/ \E tool \in {"string", "tsv"} : \E args \in ConcurrentArgs(tool) :
           HandlerCall(tool, args)
    \/ \E o \in ConcurrentOutcomes : HandlerSchemaResolved(o)
    \/ \E error \in ThrownErrors : HandlerSchemaRejected(error)
    \/ \E o \in ConcurrentOutcomes : HandlerReadResolved(o)
    \/ \E error \in ReadErrors : HandlerReadRejected(error)
    \/ HandlerTurn

SpecConcurrent == Init /\ [][NextConcurrent]_vars

(***************************************************************************)
(* Claims about the schema cache.                                          *)
(***************************************************************************)

\* C1 as stated: a call that starts after an equivalent call completed, with no
\* remove or clear in between, invokes no loader and returns that call's handle.
C1_AsStated ==
    \A c \in CallIds :
        calls[c].done # 0 =>
            /\ calls[c].load = 0
            /\ calls[c].pc = "returned" => calls[c].result = Schema(calls[c].done)

\* C1 (amended): a call that starts while the latest completed load of an
\* equivalent version string is still stored (no remove, clear or later load
\* completion for the key since) invokes no loader and returns the very handle
\* that load stored.
C1_CacheHitReturnsStoredHandle ==
    \A c \in CallIds :
        calls[c].seen # 0 =>
            /\ calls[c].pc = "returned"
            /\ calls[c].load = 0
            /\ calls[c].result = Schema(calls[c].seen)

\* the second of two calls with different but equivalent strings hit the entry
\* the first one loaded, and the loader ran once in total
C1_Witness ==
    /\ loadCount = 1
    /\ calls["c1"].arg = Str(<<"a">>)
    /\ calls["c1"].pc = "returned" /\ calls["c1"].load = 1
    /\ calls["c2"].arg = Str(<<" ", "a", ",">>)
    /\ calls["c2"].pc = "returned" /\ calls["c2"].seen = 1
    /\ calls["c2"].result = calls["c1"].result

\* C4: a call whose load rejects changes the cache in neither of its steps,
\* throws the very error the loader rejected with, and invoked the loader once.
C4_FailedLoadLeavesCacheAndRethrows ==
    [][\A c \in CallIds :
         /\ (calls[c].pc # "awaitLoad" /\ calls'[c].pc = "awaitLoad") =>
                (cache' = cache /\ loadCount' = loadCount + 1)
         /\ (calls[c].pc = "awaitLoad" /\ calls'[c].pc = "threw") =>
                /\ cache' = cache
                /\ loadCount' = loadCount
                /\ calls'[c].load = calls[c].load
                /\ calls'[c].result = LoadError(calls[c].load)]_vars

\* a load rejected while the cache held another call's entry
C4_Witness ==
    \E c \in CallIds :
        /\ calls[c].pc = "threw"
        /\ calls[c].result = LoadError(2)
        /\ Len(cache) = 1
        /\ ~hasSchema(cache, calls[c].arg)

\* C5 as stated: while a key stays in the cache no step changes its handle.
C5_AsStated ==
    [][\A k \in Keys :
         (MapHas(cache, k) /\ MapHas(cache', k)) =>
             MapGet(cache', k) = MapGet(cache, k)]_vars

\* C5 (amended): while a key stays in the cache its handle is replaced only by
\* the completion of a load for that key that was already in flight, and every
\* call that starts while the entry is present returns the entry's handle and
\* leaves the cache alone.
C5_EntryReplacedOnlyByInFlightLoad ==
    [][/\ \A k \in Keys :
            (MapHas(cache, k) /\ MapHas(cache', k)
                /\ MapGet(cache', k) # MapGet(cache, k)) =>
                \E c \in CallIds :
                    /\ calls[c].pc = "awaitLoad"
                    /\ normalizeVersion(calls[c].arg) = k
                    /\ calls'[c].pc = "returned"
                    /\ MapGet(cache', k) = Schema(calls[c].load)
       /\ \A c \in CallIds :
            (calls[c].pc # "awaitLoad" /\ calls'[c] # calls[c]
                /\ MapHas(cache, normalizeVersion(calls'[c].arg))) =>
                /\ calls'[c].pc = "returned"
                /\ calls'[c].result = MapGet(cache, normalizeVersion(calls'[c].arg))
                /\ cache' = cache]_vars

\* two loads of one key overlapped and the later completion replaced the entry
C5_Witness ==
    /\ calls["c1"].pc = "returned" /\ calls["c1"].load = 1
    /\ calls["c2"].pc = "returned" /\ calls["c2"].load = 2
    /\ normalizeVersion(calls["c1"].arg) = normalizeVersion(calls["c2"].arg)
    /\ cache = <<[key |-> Str(<<"a">>), value |-> Schema(1)]>>

C2_AsStated ==
    /\ hcall.pc # "escaped"
    /\ hcall.pc = "returned" => hcall.path # "none"

\* C3: a handler call whose checkForWarnings is false or omitted returns an
\* empty warnings list on every return path, whatever warnings were found.
C3_NoWarningsUnlessRequested ==
    (hcall.pc = "returned" /\ hcall.args.checkForWarnings \in {"omitted", "false"}) =>
        /\ hcall.path \in {"success", "definitionErrors", "noHedData", "caught"}
        /\ hcall.result.warnings = <<>>

\* a TSV call without checkForWarnings got through validation with a warning
\* from a definition and a warning from the validator, and returned neither
C3_Witness ==
    /\ hcall.pc = "returned" /\ hcall.path = "success" /\ hcall.tool = "tsv"
    /\ hcall.args.checkForWarnings = "omitted"
    /\ Len(hcall.definitionResult.warnings) > 0
    /\ hcall.found = <<TagWarning, TagError>>
    /\ Len(hcall.result.errors) = 1
    /\ hcall.result.warnings = <<>>

\* C7: once the definition assembler has reported an error for the supplied
\* definitions the call has returned exactly the assembler's errors, with the
\* assembler's warnings if checkForWarnings is true and none otherwise, and it
\* has invoked neither the content validator nor the file reader.
C7_DefinitionErrorsShortCircuit ==
    (hcall.usedAssembler /\ Len(hcall.definitionResult.errors) > 0) =>
        /\ hcall.definitionResult =
               createDefinitionManager(definitionsOrDefault(hcall.args))
        /\ hcall.pc = "returned"
        /\ hcall.result.errors = hcall.definitionResult.errors
        /\ hcall.result.warnings =
               IF hcall.args.checkForWarnings = "true"
               THEN hcall.definitionResult.warnings ELSE <<>>
        /\ ~hcall.usedValidator
        /\ ~hcall.usedReader

\* a TSV call that has to read its file and asks for warnings was given a
\* good and a bad definition: it returned the error and the warning at once
C7_Witness ==
    /\ hcall.pc = "returned" /\ hcall.tool = "tsv"
    /\ hcall.args.definitions = DefList(<<"defW", "bad">>)
    /\ hcall.args.fileData = "omitted"
    /\ hcall.args.checkForWarnings = "true"
    /\ Len(hcall.result.errors) = 1
    /\ Len(hcall.result.warnings) = 1
    /\ ~hcall.usedValidator /\ ~hcall.usedReader

\* the codes that count as the generic validation-failure code
GenericFailureCodes == {"VALIDATION_ERROR", "INTERNAL_ERROR"}

\* C8 as stated: a call whose schema resolution failed returns exactly one
\* error with the generic validation-failure code and no warnings, and has
\* invoked neither the definition assembler, the file reader nor the validator.
C8_AsStated ==
    hcall.schemaFailed =>
        /\ hcall.pc = "returned"
        /\ Len(hcall.result.errors) = 1
        /\ hcall.result.errors[1].code \in GenericFailureCodes
        /\ hcall.result.warnings = <<>>
        /\ ~hcall.usedAssembler /\ ~hcall.usedReader /\ ~hcall.usedValidator

(***************************************************************************)
(* Claims about the definition assembler.                                  *)
(***************************************************************************)

AnyParseFails(definitions) ==
    \E i \in 1..Len(definitions.items) :
        createDefinition(definitions.items[i]).errors # <<>>

\* what the strings of the batch parse to, in input order
ParsedDefinitions(definitions) ==
    [i \in 1..Len(definitions.items) |-> createDefinition(definitions.items[i]).definition]

\* two strings of the batch define one name differently, so registration fails
AnyConflict(definitions) ==
    LET parsed == ParsedDefinitions(definitions)
    IN  \E i, j \in 1..Len(parsed) :
            i < j /\ parsed[i].name = parsed[j].name /\ parsed[i] # parsed[j]

\* the first definition of each name, in input order, from position i on
RECURSIVE FirstOfEachName(_, _)
FirstOfEachName(parsed, i) ==
    IF i > Len(parsed) THEN <<>>
    ELSE (IF \E j \in 1..(i - 1) : parsed[j].name = parsed[i].name
          THEN <<>> ELSE <<parsed[i]>>) \o FirstOfEachName(parsed, i + 1)

RECURSIVE IsSubsequence(_, _)
IsSubsequence(a, b) ==
    IF a = <<>> THEN TRUE
    ELSE IF b = <<>> THEN FALSE
    ELSE IF Head(a) = Head(b) THEN IsSubsequence(Tail(a), Tail(b))
    ELSE IsSubsequence(a, Tail(b))

\* C11: separateIssuesBySeverity puts exactly the issues whose severity is the
\* string "error" into errors and all the others into others, each list in the
\* input's relative order, and the two lengths add up to the input's length.
C11_PartitionBySeverity ==
    applied.fn = "separateIssuesBySeverity" =>
        LET errors == applied.result.errors
            others == applied.result.others
        IN  /\ \A i \in 1..Len(errors) : errors[i].severity = "error"
            /\ \A i \in 1..Len(others) : others[i].severity # "error"
            /\ IsSubsequence(errors, applied.arg)
            /\ IsSubsequence(others, applied.arg)
            /\ Len(errors) + Len(others) = Len(applied.arg)

\* an info, an error and an "Error" issue: one error, the other two kept in order
C11_Witness ==
    /\ applied.fn = "separateIssuesBySeverity"
    /\ Len(applied.arg) = 3
    /\ applied.arg[1].severity = "info"
    /\ applied.arg[2].severity = "error"
    /\ applied.arg[3].severity = "Error"
    /\ applied.result.errors = <<applied.arg[2]>>
    /\ applied.result.others = <<applied.arg[1], applied.arg[3]>>

\* C12: normalizeVersion is idempotent.
C12_NormalizeIdempotent ==
    applied.fn = "normalizeVersion" =>
        normalizeVersion(applied.result) = applied.result

\* a string that normalization changes, and whose key it leaves alone
C12_Witness ==
    /\ applied.fn = "normalizeVersion"
    /\ applied.arg = Str(<<",", " ", "a">>)
    /\ applied.result = Str(<<"a">>)
    /\ normalizeVersion(applied.result) = Str(<<"a">>)

\* the key of s from position lo + 1 on, read off s by position: each stretch
\* between commas from its first to its last character that is not white space,
\* stretches without such a character left out; first tells that no part has
\* been put out yet
RECURSIVE ExpectedKey(_, _, _)
ExpectedKey(s, lo, first) ==
    IF lo > Len(s) THEN <<>>
    ELSE LET hi == CHOOSE h \in (lo + 1)..(Len(s) + 1) :
                       /\ h = Len(s) + 1 \/ s[h] = ","
                       /\ \A m \in (lo + 1)..(h - 1) : s[m] # ","
             kept == {i \in (lo + 1)..(hi - 1) : s[i] \notin {" ", "\t"}}
             from == CHOOSE i \in kept : \A j \in kept : i <= j
             to == CHOOSE i \in kept : \A j \in kept : j <= i
         IN  IF kept = {} THEN ExpectedKey(s, hi, first)
             ELSE (IF first THEN <<>> ELSE <<",">>) \o SubSeq(s, from, to)
                      \o ExpectedKey(s, hi, FALSE)

\* s with character c put in after position p
Inserted(s, p, c) == SubSeq(s, 1, p) \o <<c>> \o SubSeq(s, p + 1, Len(s))

\* position p of s is at an end of s or next to a comma
AtPartEdge(s, p) ==
    \/ p = 0
    \/ p = Len(s)
    \/ s[p] = ","
    \/ s[p + 1] = ","

\* C13: for a non-empty string normalizeVersion returns the trimmed non-empty
\* parts in their order joined by bare commas; a space or a comma more at the
\* edge of a part gives the same key, the parts in another order give another
\* key; an empty string and a value that is not a string come back unchanged.
C13_NormalizeByParts ==
    applied.fn = "normalizeVersion" =>
        LET v == applied.arg
            key == applied.result
        IN  IF v.t = "str" /\ v.s # <<>>
            THEN /\ key = Str(ExpectedKey(v.s, 0, TRUE))
                 /\ \A p \in 0..Len(v.s) : \A c \in {" ", "\t", ","} :
                        AtPartEdge(v.s, p) =>
                            normalizeVersion(Str(Inserted(v.s, p, c))) = key
                 /\ LET parts == Split(key.s, ",")
                    IN  (Len(parts) = 2 /\ parts[1] # parts[2]) =>
                            normalizeVersion(Str(parts[2] \o <<",">> \o parts[1])) # key
            ELSE key = v

\* a part with a tab before the comma and nothing after it
C13_Witness ==
    /\ applied.fn = "normalizeVersion"
    /\ applied.arg = Str(<<"b", "\t", ",">>)
    /\ applied.result = Str(<<"b">>)

(***************************************************************************)
(* Further claims about the schema cache.                                  *)
(***************************************************************************)

\* C14: the cache never holds two entries of one key, every key it holds is
\* its own normalization, and getCacheStats reports exactly the keys held and
\* their number.
C14_OneEntryPerNormalizedKey ==
    LET stats == getCacheStats(cache)
    IN  /\ \A i, j \in 1..Len(cache) : cache[i].key = cache[j].key => i = j
        /\ \A i \in 1..Len(cache) : normalizeVersion(cache[i].key) = cache[i].key
        /\ {stats.cachedVersions[i] : i \in 1..Len(stats.cachedVersions)} = MapKeys(cache)
        /\ Len(stats.cachedVersions) = Cardinality(MapKeys(cache))
        /\ stats.cacheSize = Cardinality(MapKeys(cache))

\* two loads of two different keys, one loader invocation each: size 2
C14_Witness ==
    /\ getCacheStats(cache).cacheSize = 2
    /\ MapKeys(cache) = {Str(<<"a">>), Str(<<"a", ",", "b">>)}
    /\ loadCount = 2
    /\ \A c \in CallIds : calls[c].pc = "returned" /\ calls[c].load # 0

\* C15: a call that misses hands the loader the very string it was called with,
\* and when the load resolves the handle is stored under the normalized key and
\* not under the caller's string when the two differ.
C15_LoaderGetsRawStringCacheGetsKey ==
    [][\A c \in CallIds :
         /\ (calls[c].pc # "awaitLoad" /\ calls'[c].pc = "awaitLoad") =>
                /\ calls'[c].loaderArg = calls'[c].arg
                /\ cache' = cache
         /\ (calls[c].pc = "awaitLoad" /\ calls'[c].pc = "returned") =>
                LET v == calls[c].arg
                IN  /\ MapHas(cache', normalizeVersion(v))
                    /\ MapGet(cache', normalizeVersion(v)) = Schema(calls[c].load)
                    /\ v # normalizeVersion(v) => ~MapHas(cache', v)]_vars

\* a load for a string that is not normalized: the loader got the string, the
\* cache the key
C15_Witness ==
    \E c \in CallIds :
        /\ calls[c].pc = "returned" /\ calls[c].load = 1
        /\ calls[c].arg = Str(<<" ", "a", ",">>)
        /\ calls[c].loaderArg = Str(<<" ", "a", ",">>)
        /\ MapKeys(cache) = {Str(<<"a">>)}

\* C16: when a load resolves for a call while another call for the same key,
\* which also invoked the loader, has already completed, the cache afterwards
\* holds exactly one entry for the key, with the handle of the load that
\* resolved now.
C16_LastCompletedLoadWins ==
    [][\A c, d \in CallIds :
         (/\ c # d
          /\ calls[c].pc = "awaitLoad" /\ calls'[c].pc = "returned"
          /\ calls[d].pc = "returned" /\ calls[d].load # 0
          /\ normalizeVersion(calls[d].arg) = normalizeVersion(calls[c].arg)) =>
             LET k == normalizeVersion(calls[c].arg)
             IN  /\ Cardinality({i \in 1..Len(cache') : cache'[i].key = k}) = 1
                 /\ MapGet(cache', k) = Schema(calls[c].load)
                 /\ calls'[c].result = Schema(calls[c].load)]_vars

\* two calls with equivalent strings both invoked the loader; the one that
\* started first completed first, and the cache holds the other's handle
C16_Witness ==
    /\ calls["c1"].pc = "returned" /\ calls["c1"].load = 1
    /\ calls["c2"].pc = "returned" /\ calls["c2"].load = 2
    /\ calls["c1"].arg = Str(<<"a">>)
    /\ calls["c2"].arg = Str(<<" ", "a", ",">>)
    /\ loadCount = 2
    /\ cache = <<[key |-> Str(<<"a">>), value |-> Schema(2)]>>

C18_NoHedDataSkipsValidation ==
    (hcall.tool = "tsv" /\ hcall.hasHedData = "false") =>
        /\ hcall.pc = "returned"
        /\ hcall.result = Result(<<>>, <<>>, "absent")
        /\ ~hcall.usedValidator

\* such a call, asked for warnings and holding a definition warning
C18_Witness ==
    /\ hcall.tool = "tsv" /\ hcall.hasHedData = "false"
    /\ hcall.pc = "returned" /\ hcall.path = "noHedData"
    /\ checkForWarnings(hcall.args)
    /\ Len(hcall.definitionResult.warnings) > 0

(***************************************************************************)
(* Claims about content acquisition in the handlers.                       *)
(***************************************************************************)

\* a sidecar call given syntactically invalid JSON inline, past a successful
\* schema resolution
InvalidInlineSidecar ==
    /\ hcall.tool \in {"sidecar", "validateSidecar"}
    /\ hcall.args.present
    /\ hcall.args.fileData = "invalid"
    /\ hcall.pc # "awaitSchema"
    /\ ~hcall.schemaFailed

\* the codes that name a JSON parse failure and nothing else
JsonParseFailureCodes == {"JSON_PARSE_ERROR"}

\* C19 as stated: such a call returns exactly one error, whose code is that of
\* a JSON parse failure, and never invokes the sidecar's validate.
C19_AsStated ==
    InvalidInlineSidecar =>
        /\ hcall.pc = "returned"
        /\ Len(hcall.result.errors) = 1
        /\ hcall.result.errors[1].code \in JsonParseFailureCodes
        /\ ~hcall.usedValidator

\* C19, amended: such a call returns exactly one error and no warnings and
\* never invokes the sidecar's validate or the file reader; the error carries
\* the parser's message, under the code JSON_PARSE_ERROR from
\* handleValidateHedSidecar and under the generic code INTERNAL_ERROR, which
\* every caught exception gets, from handleParseHedSidecar.
C19_InvalidJsonOneErrorNoValidation ==
    InvalidInlineSidecar =>
        /\ hcall.pc = "returned"
        /\ Len(hcall.result.errors) = 1
        /\ hcall.result.errors[1].severity = "error"
        /\ IF hcall.tool = "validateSidecar"
           THEN /\ hcall.result.errors[1].code = "JSON_PARSE_ERROR"
                /\ hcall.result.errors[1].message =
                       "Failed to parse JSON: Unexpected token"
           ELSE /\ hcall.result.errors[1].code = "INTERNAL_ERROR"
                /\ hcall.result.errors[1].message = "Unexpected token"
        /\ hcall.result.warnings = <<>>
        /\ ~hcall.usedValidator
        /\ ~hcall.usedReader

\* handleParseHedSidecar, asked for warnings, returned the generic code for
\* invalid inline JSON
C19_Witness ==
    /\ InvalidInlineSidecar
    /\ hcall.tool = "sidecar"
    /\ hcall.args.checkForWarnings = "true"
    /\ hcall.pc = "returned" /\ hcall.path = "caught"
    /\ hcall.result.errors[1].code = "INTERNAL_ERROR"

\* the codes of a file or internal error
FileOrInternalCodes == {"FILE_READ_ERROR", "INTERNAL_ERROR"}

\* the code the handler of call h gives a read that fails with error
ReadFailureCode(h, error) == ReadRejected(h, error).result.errors[1].code

\* the message it gives it
ReadFailureMessage(h, error) == ReadRejected(h, error).result.errors[1].message

NotAbsoluteText(filePath) == "File path must be absolute: " \o Text(filePath) \o "."

NotFoundText(filePath) == "File not found at path: " \o Text(filePath)

OtherFailureText(filePath, detail) ==
    "Failed to read file at path " \o Text(filePath) \o ": " \o detail

\* C21 as stated: a reader call that failed rejected a path that is not
\* absolute without touching the file system and with the message that names
\* the path, an absolute path with ENOENT from the file system with the
\* not-found message, and any other failure with the failed-to-read message.
C21_AsStated ==
    (applied.fn \in Readers /\ applied.result.status = "rejected") =>
        LET filePath == applied.arg
            r == applied.result
        IN  IF ~isAbsolute(filePath)
            THEN ~r.fsAccessed /\ r.message = NotAbsoluteText(filePath)
            ELSE IF r.cause[1].isError /\ r.cause[1].code = "ENOENT"
            THEN r.message = NotFoundText(filePath)
            ELSE \E detail \in {"Unknown error"} \cup {e.message : e \in FsErrors} :
                     r.message = OtherFailureText(filePath, detail)

(***************************************************************************)
(* Claims about the issue formatter.                                       *)
(***************************************************************************)

FieldNames == {"code", "detailedCode", "severity", "message", "column", "line", "location"}

\* the shapes whose fields are read one by one
StructuredShapes == {"IssueError", "BidsHedIssue", "Issue", "object"}

\* C22 as stated: formatIssue returns, for an input of every shape, a record
\* whose seven fields are strings, and in which no field of a structured input
\* that is absent shows as the text of undefined or null.
C22_AsStated ==
    applied.fn = "formatIssue" =>
        /\ ~applied.result.threw
        /\ DOMAIN applied.result.value = FieldNames
        /\ \A f \in FieldNames : applied.result.value[f] \in STRING
        /\ applied.arg.shape \in StructuredShapes =>
               \A f \in FieldNames : applied.result.value[f] \notin {"undefined", "null"}

\* C23 as stated: formatIssues never throws, and returns a list as long as
\* its input whose i-th element is formatIssue of the i-th input.
C23_AsStated ==
    applied.fn = "formatIssues" =>
        /\ ~applied.result.threw
        /\ Len(applied.result.value) = Len(applied.arg)
        /\ \A i \in 1..Len(applied.arg) :
               ~FormatThrows(applied.arg[i]) =>
                   applied.result.value[i] = formatIssue(applied.arg[i])

\* formatIssue was applied to a BidsHedIssue that wraps an Issue
FormattedWrapper ==
    /\ applied.fn = "formatIssue"
    /\ applied.arg.shape = "BidsHedIssue"
    /\ applied.arg.inner # <<>>

\* the line the statement describes: the wrapper's, else the wrapped issue's
\* tsvLine parameter, else empty
ExpectedLine(wrapper, inner) ==
    IF Truthy(wrapper.line) THEN wrapper.line.v
    ELSE IF inner.hasParams /\ Truthy(inner.tsvLine) THEN inner.tsvLine.v
    ELSE ""

\* the code it describes: the marker only when neither gives a code
ExpectedCode(wrapper, inner) ==
    IF Truthy(inner.hedCode) THEN inner.hedCode.v
    ELSE IF Truthy(wrapper.code) THEN wrapper.code.v
    ELSE "BIDS_HED_CODE"

HandlerCalls == {hcall} \cup {aside[i] : i \in 1..Len(aside)}

\* the definitions the strings of call h parse to
OwnDefinitions(h) ==
    LET parsed == ParsedDefinitions(definitionsOrDefault(h.args))
    IN  {parsed[i] : i \in 1..Len(parsed)} \ {NoDefinition}

\* what the assembler gives for the definitions of call h when no other
\* manager exists
AssembledAlone(h) ==
    LET definitions == definitionsOrDefault(h.args)
        parsed == ParsedDefinitions(definitions)
    IN  IF isEmptyInput(definitions) THEN NoManager
        ELSE [present |-> TRUE,
              definitions |-> IF AnyParseFails(definitions) THEN <<>>
                              ELSE FirstOfEachName(parsed, 1)]

Members(list) == {list[i] : i \in 1..Len(list)}

\* a TSV or sidecar call returned what the validator found
ValidatedFile ==
    /\ hcall.tool \in {"tsv", "sidecar", "validateSidecar"}
    /\ hcall.pc = "returned" /\ hcall.path = "success"

\* C26 as stated: in a TSV or sidecar result every returned error has
\* severity "error", and the issues of another severity that the validator
\* found are all among the warnings when checkForWarnings is true and nowhere
\* in the result when it is not.
C26_AsStated ==
    ValidatedFile =>
        LET formatted == formatIssues(hcall.found)
            nonErrors == {f \in Members(formatted) : f.severity # "error"}
        IN  /\ \A e \in Members(hcall.result.errors) : e.severity = "error"
            /\ IF checkForWarnings(hcall.args)
               THEN nonErrors \subseteq Members(hcall.result.warnings)
               ELSE /\ hcall.result.warnings = <<>>
                    /\ nonErrors \cap Members(hcall.result.errors) = {}

\* C27: a TSV or sidecar call has invoked the file reader only if it was given
\* no inline data, and then only with the schema resolved and, in the TSV
\* handler, with the definitions assembled without an error; a call given
\* inline data never invokes it.
C27_ReadOnlyWithoutInlineData ==
    /\ hcall.usedReader =>
           /\ hcall.tool \in {"tsv", "sidecar", "validateSidecar"}
           /\ hcall.args.fileData \in {"omitted", "empty"}
           /\ ~hcall.schemaFailed
           /\ hcall.hedSchemas # NoResult
           /\ hcall.tool = "tsv" =>
                  /\ hcall.usedAssembler
                  /\ hcall.definitionResult.errors = <<>>
    /\ hcall.args.fileData \in {"valid", "invalid"} => ~hcall.usedReader

\* a TSV call without inline data is at its read, its definitions assembled
\* with a warning and no error
C27_Witness ==
    /\ hcall.tool = "tsv" /\ hcall.pc = "awaitRead"
    /\ hcall.usedReader
    /\ hcall.args.fileData = "omitted"
    /\ hcall.usedAssembler
    /\ Len(hcall.definitionResult.warnings) = 1
    /\ hcall.definitionResult.errors = <<>>

(***************************************************************************)
(* A further claim about the schema cache.                                 *)
(***************************************************************************)

\* the key of the string the loader invocation that made handle was given
KeyLoadedFor(handle) == normalizeVersion(loadedFor[handle.id])

\* C28: under every interleaving of getOrCreateSchema, removeSchema and
\* clearCache, each entry of the cache is a schema that the loader made for a
\* string of the entry's key, and each call that returned, from the cache or
\* from its own load, returned a schema made for a string of its own key.
C28_HandleBelongsToItsKey ==
    /\ \A i \in 1..Len(cache) :
           /\ cache[i].value.kind = "schema"
           /\ KeyLoadedFor(cache[i].value) = cache[i].key
    /\ \A c \in CallIds :
           calls[c].pc = "returned" =>
               /\ calls[c].result.kind = "schema"
               /\ KeyLoadedFor(calls[c].result) = normalizeVersion(calls[c].arg)

\* two loads for different keys in flight at once; both resolved, and a call
\* by another spelling of the first key got the first load's schema
C28_Witness ==
    /\ Len(cache) = 2
    /\ cache[1].key # cache[2].key
    /\ calls["c2"].pc = "returned" /\ calls["c2"].load = 2
    /\ calls["c1"].pc = "returned" /\ calls["c1"].load = 0
    /\ calls["c1"].result = Schema(1)
    /\ calls["c1"].arg # loadedFor[1]
    /\ normalizeVersion(calls["c1"].arg) = cache[1].key

\* a call that asked for warnings returned, its definitions assembled with
\* warnings and without an error
ReturnedWithDefinitionWarnings ==
    /\ hcall.pc = "returned"
    /\ checkForWarnings(hcall.args)
    /\ hcall.usedAssembler
    /\ hcall.definitionResult.errors = <<>>
    /\ hcall.definitionResult.warnings # <<>>

\* list starts with prefix
StartsWith(list, prefix) ==
    /\ Len(prefix) <= Len(list)
    /\ SubSeq(list, 1, Len(prefix)) = prefix

\* the warnings among what the validator found, formatted
ContentWarnings(h) ==
    SelectSeq(formatIssues(h.found), LAMBDA f : f.severity # "error")

\* C29 as stated: every result of such a call that does not come from the
\* catch block has the definition warnings, in order, at the head of its
\* warnings.
C29_AsStated ==
    (ReturnedWithDefinitionWarnings /\ hcall.path # "caught") =>
        StartsWith(hcall.result.warnings, hcall.definitionResult.warnings)

\* C29, amended: the result of such a call that went through validation has
\* the definition warnings, in order, followed by the warnings of the
\* content; the TSV handler's result for a file without HED data has no
\* warnings at all, the definition warnings are dropped there, as they are in
\* the result of the catch block.
C29_DefinitionWarningsFirstWhenValidated ==
    ReturnedWithDefinitionWarnings =>
        /\ hcall.path \in {"success", "noHedData", "caught"}
        /\ hcall.path = "success" =>
               hcall.result.warnings =
                   hcall.definitionResult.warnings \o ContentWarnings(hcall)
        /\ hcall.path \in {"noHedData", "caught"} => hcall.result.warnings = <<>>

\* a TSV call with a definition warning found a warning and an error in the
\* file: the definition warning comes first of two
C29_Witness ==
    /\ ReturnedWithDefinitionWarnings
    /\ hcall.tool = "tsv" /\ hcall.path = "success"
    /\ hcall.found = <<TagWarning, TagError>>
    /\ Len(hcall.result.warnings) = 2
    /\ hcall.result.warnings[1] = hcall.definitionResult.warnings[1]
    /\ hcall.result.warnings[2].code = "TAG_EXTENDED"

\* a handler call is suspended at an await
Awaiting == hcall.pc \in {"awaitSchema", "awaitRead"}

\* the call has invoked the loader, the reader and the validator once at most
AtMostOnce == hcall.loads <= 1 /\ hcall.reads <= 1 /\ hcall.validations <= 1

\* a suspended call ends, by returning its result or by an escaped exception
EndsEitherWay == Awaiting ~> (hcall.pc \in {"returned", "escaped"})

\* no step of a call goes back to an await it has passed or stays at one
NoRetry ==
    [][/\ hcall.pc = "awaitRead" => hcall'.pc # "awaitSchema"
       /\ Awaiting => hcall'.pc # hcall.pc \/ UNCHANGED hcall]_vars

\* C30 as stated: a handler call whose awaited collaborator calls are settled
\* returns its result in the end, and at no time has it invoked the loader,
\* the file reader or the validator more than once.
C30_AsStated ==
    /\ [](hcall.pc # "escaped")
    /\ Awaiting ~> (hcall.pc = "returned")
    /\ []AtMostOnce

====
